---- MODULE Spec2Model ----
(***************************************************************************)
(* FloraGenius: the journal store written by the identification flow       *)
(* (IdentifyScreen.handleIdentify, services/geminiService.ts) and the care *)
(* reminders kept by RemindersScreen, over the browser's localStorage.     *)
(*                                                                         *)
(* Time is in milliseconds, as Date.getTime() gives it.  A stored          *)
(* timestamp is the ISO string toISOString() writes, modelled as the pair  *)
(* <<whole days, milliseconds of the day>> it spells out.                  *)
(***************************************************************************)
EXTENDS Integers, Sequences, FiniteSets, TLC

\* ------------------------------------------------------------------------
\* Program constants
\* ------------------------------------------------------------------------

\* [newEntry, ...journal].slice(0, 20)
JournalCap == 20

\* updatedJournal.slice(0, 10), the write tried when the first is rejected
FallbackCap == 10

\* 1000 * 60 * 60 * 24 in getDayStatus
DayMs == 86400000

\* useState(7): the frequency the reminder form starts with
DefaultFrequency == 7

\* ------------------------------------------------------------------------
\* Bounds of the model
\* ------------------------------------------------------------------------

\* identification flows that may be in flight in one UI context
NumFlows == 2

\* handleIdentify invocations in the general specification
MaxRuns == 2

\* handleIdentify invocations in the capacity specification (beyond JournalCap)
MaxCapRuns == 22

\* tokens of a remote response text
MaxTextLen == 3

\* reminders created
MaxReminders == 1

\* milliseconds the clock may advance between two new Date() of one handler
MaxReadGap == 1

\* milliseconds the handlers' clock reads may add up to
MaxDrift == 1

\* whole days of the instants getDayStatus is tabulated over
GridDays == 2

\* handleLogin calls in one behaviour
MaxLogins == 2

\* reminders in the stored collections the due check is run over
MaxStored == 2

\* ------------------------------------------------------------------------
\* Sequences
\* ------------------------------------------------------------------------

\* Array.prototype.slice(0, n)
Slice(s, n) == SubSeq(s, 1, IF Len(s) < n THEN Len(s) ELSE n)

SeqsUpTo(S, n) == UNION { [1..k -> S] : k \in 0..n }

\* ------------------------------------------------------------------------
\* Timestamps
\* ------------------------------------------------------------------------

\* Date.prototype.toISOString(): the UTC day and the time of that day
ToISOString(t) == <<t \div DayMs, t % DayMs>>

\* new Date(isoString).getTime()
DateParse(s) == s[1] * DayMs + s[2]

\* ------------------------------------------------------------------------
\* localStorage values
\* ------------------------------------------------------------------------

\* getItem() of a key never written: null
Absent == [tag |-> "absent", val |-> <<>>]

\* a value that is not JSON text
Garbage == [tag |-> "garbage", val |-> <<>>]

\* JSON.stringify(array)
JSONstringify(v) == [tag |-> "json", val |-> v]

\* JSON.parse(localStorage.getItem(key) || '[]'): ok = FALSE is the SyntaxError
ParseStored(item) ==
  IF item.tag = "absent" THEN [ok |-> TRUE, val |-> <<>>]
  ELSE IF item.tag = "json" THEN [ok |-> TRUE, val |-> item.val]
  ELSE [ok |-> FALSE, val |-> <<>>]

\* ------------------------------------------------------------------------
\* services/geminiService.ts: the response text and its parsing
\* A text is a sequence of tokens: "{" and "}", "N" (the member "name": ...),
\* "R" (the other members of the record, careGuide included), "1" (a number
\* literal), "null", and "w" (prose or a markdown fence around the JSON).
\* ------------------------------------------------------------------------

Tokens == {"{", "}", "N", "R", "1", "null", "w"}

NoData == [kind |-> "none", fields |-> {}]

\* String.prototype.indexOf(c): 0-based, -1 when absent
IndexOf(text, c) ==
  IF \E i \in 1..Len(text) : text[i] = c
  THEN (CHOOSE i \in 1..Len(text) :
          text[i] = c /\ \A j \in 1..(i - 1) : text[j] # c) - 1
  ELSE -1

\* String.prototype.lastIndexOf(c): 0-based, -1 when absent
LastIndexOf(text, c) ==
  IF \E i \in 1..Len(text) : text[i] = c
  THEN (CHOOSE i \in 1..Len(text) :
          text[i] = c /\ \A j \in (i + 1)..Len(text) : text[j] # c) - 1
  ELSE -1

\* String.prototype.substring(a, b): 0-based [a, b), the arguments swapped
\* when a > b
Substring(text, a, b) ==
  LET lo == IF a < b THEN a ELSE b
      hi == IF a < b THEN b ELSE a
  IN SubSeq(text, lo + 1, hi)

\* JSON.parse(text): ok = FALSE is the SyntaxError
JsonParse(text) ==
  IF text = <<"1">> THEN [ok |-> TRUE, val |-> [kind |-> "number", fields |-> {}]]
  ELSE IF text = <<"null">> THEN [ok |-> TRUE, val |-> [kind |-> "null", fields |-> {}]]
  ELSE IF /\ Len(text) >= 2
          /\ text[1] = "{"
          /\ text[Len(text)] = "}"
          /\ \A i \in 2..(Len(text) - 1) : text[i] \in {"N", "R"}
       THEN [ok |-> TRUE,
             val |-> [kind |-> "object",
                      fields |-> { IF text[i] = "N" THEN "name" ELSE "rest" :
                                     i \in 2..(Len(text) - 1) }]]
  ELSE [ok |-> FALSE, val |-> NoData]

\* extractJson(text): ok = FALSE is the Error it throws
extractJson(text) ==
  LET start == IndexOf(text, "{")
      end == LastIndexOf(text, "}")
  IN IF start # -1 /\ end # -1
     THEN JsonParse(Substring(text, start, end + 1))
     ELSE JsonParse(text)

\* identifyPlant(...): resp.rejected is generateContent() rejecting, resp.text
\* the response text; ok = FALSE is the Error it throws
identifyPlant(resp) ==
  IF resp.rejected THEN [ok |-> FALSE, data |-> NoData]
  ELSE LET text == IF resp.text = <<>> THEN <<"{", "}">> ELSE resp.text
           parsed == extractJson(text)
       IN [ok |-> parsed.ok, data |-> parsed.val]

\* the answer that follows the prompt: the record with every member
WellFormed == [rejected |-> FALSE, text |-> <<"{", "N", "R", "}">>]

\* the same inside a markdown fence
Fenced == [rejected |-> FALSE, text |-> <<"w", "{", "N", "R", "}", "w">>]

\* the remote answers handleIdentify may get: the call rejected, the
\* well-formed answer bare and fenced, and every text of up to MaxTextLen tokens
Responses ==
  { [rejected |-> TRUE, text |-> <<>>], WellFormed, Fenced } \cup
  { [rejected |-> FALSE, text |-> t] : t \in SeqsUpTo(Tokens, MaxTextLen) }

\* the members of PlantIdentification the prompt asks for
RequiredFields == {"name", "rest"}

\* ------------------------------------------------------------------------
\* State
\* ------------------------------------------------------------------------

VARIABLES
  now,              \* the clock, new Date().getTime()
  quota,            \* journal entries localStorage has room for: setItem of a
                    \* longer journal throws QuotaExceededError
  user,             \* App's user state, from authService.getSession()
  plant_journal,    \* localStorage['plant_journal']
  plant_reminders,  \* localStorage['plant_reminders']
  settings,         \* localStorage['flora_genius_settings_' + id], by user id
  flow,             \* the handleIdentify invocations in flight, by slot
  runs,             \* handleIdentify invocations so far
  entryIds,         \* crypto.randomUUID() values given to journal entries
  screen,           \* the route whose screen is mounted
  remScreen,        \* RemindersScreen: its reminders and plants state, and the
                    \* status labels of its last render
  journalView,      \* JournalScreen's journal state, JournalEntryDetailScreen's entry
  reminderIds,      \* crypto.randomUUID() values given to reminders
  activePopup,      \* App's activePopup state
  uncaught,         \* an error no handler caught: "render" (thrown in an effect,
                    \* React unmounts the tree) or "timer" (thrown in the
                    \* interval callback)
  appended,         \* history: the entries handleIdentify built and wrote, in order
  persistFailed,    \* history: some setItem('plant_journal', ...) was rejected
  lastOp,           \* history: the last reminder operation and what it started from
  accounts,         \* localStorage['flora_genius_users_db']: isPro by user id
  sessions,         \* history: handleLogin calls so far, App's construction
                    \* over a stored session counted as one
  popupSession,     \* history: the session in which activePopup was set
  owners            \* history: the user who created the reminder, by reminder id

vars == <<now, quota, user, plant_journal, plant_reminders, settings, flow, runs,
          entryIds, screen, remScreen, journalView, reminderIds, activePopup,
          uncaught, appended, persistFailed, lastOp, accounts, sessions,
          popupSession, owners>>

\* what the identification flow leaves alone
uiVars == <<plant_reminders, settings, screen, remScreen, journalView, reminderIds,
            activePopup, uncaught, lastOp>>

\* what the screens leave alone
flowVars == <<quota, user, flow, runs, entryIds, appended, persistFailed>>

\* what only the session handlers and the reminder handlers touch
sessionVars == <<accounts, sessions, popupSession, owners>>

\* the ids crypto.randomUUID() gave at signup
UserIds == {"u1", "u2"}

Flows == 1..NumFlows

NoUser == [id |-> "none", isPro |-> FALSE]

FreeUser == [id |-> "u1", isPro |-> FALSE]

ProUser == [id |-> "u1", isPro |-> TRUE]

\* the sessions authService.getSession() may return when App is constructed
Sessions == {NoUser, FreeUser, ProUser}

\* room for no entry at all, for one, for fewer than the fallback keeps, for
\* the fallback only, for the whole journal
Quotas == {0, 1, FallbackCap \div 2, FallbackCap, JournalCap}

\* a slot with no invocation.  Of an invocation: where it stands, its number,
\* res.data, the loading state, how it ended ("result": setResult, "alert":
\* the scan-failed alert), and as history whether the response text it got
\* was no JSON at all and how many of its setItem calls were rejected
IdleFlow ==
  [pc |-> "idle", run |-> 0, res |-> NoData, loading |-> FALSE, outcome |-> "none",
   unparseable |-> FALSE, rejected |-> 0]

\* no reminder operation has just run.  Otherwise: its kind and id, the stored
\* collection and the clock it started from, and for a complete that follows
\* at once a complete of the same id, what that first one started from
NoOp == [kind |-> "none", id |-> 0, before |-> <<>>, at |-> 0,
         twice |-> FALSE, first |-> <<>>, firstAt |-> 0, input |-> <<>>]

\* what the histories of the session hold when App is constructed for u over
\* a storage in which u1 left the reminders 1..n
Unshared(u, n) ==
  /\ accounts = [id \in UserIds |-> id = u.id /\ u.isPro]
  /\ sessions = IF u.id = "none" THEN 0 ELSE 1
  /\ popupSession = 0
  /\ owners = [i \in 1..n |-> "u1"]

NoScreen == [reminders |-> <<>>, plants |-> <<>>, labels |-> <<>>]

NoEntry == [id |-> 0, timestamp |-> <<0, 0>>, plant |-> NoData, imageUrl |-> "null"]

NoView == [journal |-> <<>>, entry |-> NoEntry]

NoPopup == [plantName |-> "", task |-> ""]

\* App constructed over an empty localStorage with room as in quotas
Boot(quotas) ==
  /\ now = 0
  /\ quota \in quotas
  /\ user \in Sessions
  /\ plant_journal = Absent
  /\ plant_reminders = Absent
  /\ settings = [id \in UserIds |-> Absent]
  /\ Unshared(user, 0)
  /\ flow = [f \in Flows |-> IdleFlow]
  /\ runs = 0
  /\ entryIds = 0
  /\ screen = "home"
  /\ remScreen = NoScreen
  /\ journalView = NoView
  /\ reminderIds = 0
  /\ activePopup = NoPopup
  /\ uncaught = "none"
  /\ appended = <<>>
  /\ persistFailed = FALSE
  /\ lastOp = NoOp

Init == Boot({0, 1, JournalCap})

CapInit == Boot(Quotas)

\* ------------------------------------------------------------------------
\* IdentifyScreen.handleIdentify
\* ------------------------------------------------------------------------

\* localStorage.setItem('plant_journal', ...) of a journal of n entries succeeds
Fits(journal) == Len(journal) <= quota

\* catch (error) { alert("Botanical scan failed...") } finally { setLoading(false) }
ScanFailed(fl) == [fl EXCEPT !.pc = "done", !.loading = FALSE, !.outcome = "alert"]

\* setResult({...res, referenceImage}); finally { setLoading(false) }
ShowResult(fl) == [fl EXCEPT !.pc = "done", !.loading = FALSE, !.outcome = "result"]

\* a journal that makes room by dropping its most recent entry
UpdatedJournalEvictingHead(newEntry, journal) ==
  IF Len(journal) < JournalCap THEN <<newEntry>> \o journal
  ELSE <<newEntry>> \o Slice(Tail(journal), JournalCap - 1)

\* a write that stores the new entry alone
UpdatedJournalAlone(newEntry, journal) == <<newEntry>>

\* a journal that takes the new entry at its tail
UpdatedJournalAtTail(newEntry, journal) == Slice(journal \o <<newEntry>>, JournalCap)

\* what the first write is given: [newEntry, ...journal].slice(0, 20)
UpdatedJournal(newEntry, journal) == Slice(<<newEntry>> \o journal, JournalCap)

\* what the catch block writes: updatedJournal.slice(0, 10)
FallbackJournal(updated) == Slice(updated, FallbackCap)

\* lines 2248-2263: build the entry, read the journal, write it back (the
\* fallback write when the first is rejected), show the result; a throw from
\* JSON.parse or from the fallback write lands in the outer catch
SaveEntry(f, finalImage) ==
  LET newEntry == [id |-> entryIds + 1,
                   timestamp |-> ToISOString(now),
                   plant |-> flow[f].res,
                   imageUrl |-> finalImage]
      read == ParseStored(plant_journal)
      updated == UpdatedJournal(newEntry, read.val)
      fallback == FallbackJournal(updated)
  IN /\ entryIds' = entryIds + 1
     /\ IF ~read.ok
        THEN /\ flow' = [flow EXCEPT ![f] = ScanFailed(@)]
             /\ UNCHANGED <<plant_journal, appended, persistFailed>>
        ELSE /\ appended' = Append(appended, [id |-> newEntry.id, run |-> flow[f].run])
             /\ IF Fits(updated)
                THEN /\ plant_journal' = JSONstringify(updated)
                     /\ flow' = [flow EXCEPT ![f] = ShowResult(@)]
                     /\ UNCHANGED persistFailed
                ELSE /\ persistFailed' = TRUE
                     /\ IF Fits(fallback)
                        THEN /\ plant_journal' = JSONstringify(fallback)
                             /\ flow' = [flow EXCEPT ![f] =
                                           [ShowResult(@) EXCEPT !.rejected = 1]]
                        ELSE /\ flow' = [flow EXCEPT ![f] =
                                           [ScanFailed(@) EXCEPT !.rejected = 2]]
                             /\ UNCHANGED plant_journal

\* the user takes a photo: handleIdentify(base64) up to its first await
StartIdentify(f, limit) ==
  /\ user # NoUser
  /\ flow[f].pc \in {"idle", "done"}
  /\ runs < limit
  /\ runs' = runs + 1
  /\ flow' = [flow EXCEPT ![f] =
                [IdleFlow EXCEPT !.pc = "identify", !.run = runs + 1,
                                 !.loading = TRUE]]
  /\ UNCHANGED <<now, quota, user, plant_journal, entryIds, appended, persistFailed>>
  /\ UNCHANGED uiVars
  /\ UNCHANGED sessionVars

\* identifyPlant settles; res.data.name is read for generatePlantImage
IdentifyResolves(f, resp) ==
  /\ flow[f].pc = "identify"
  /\ LET res == identifyPlant(resp)
         noJson == ~resp.rejected /\ ~JsonParse(resp.text).ok
                   /\ (\A i, j \in 1..Len(resp.text) :
                         ~JsonParse(SubSeq(resp.text, i, j)).ok)
         got == [flow[f] EXCEPT !.unparseable = noJson]
     IN IF ~res.ok \/ res.data.kind = "null"
        THEN flow' = [flow EXCEPT ![f] = ScanFailed(got)]
        ELSE flow' = [flow EXCEPT ![f] = [got EXCEPT !.pc = "image", !.res = res.data]]
  /\ UNCHANGED <<now, quota, user, plant_journal, runs, entryIds, appended, persistFailed>>
  /\ UNCHANGED uiVars
  /\ UNCHANGED sessionVars

\* generatePlantImage settles (it catches its own errors): an image, which
\* goes to compressBase64, or null, and then the entry is saved at once
ImageResolves(f, hasImage) ==
  /\ flow[f].pc = "image"
  /\ IF hasImage
     THEN /\ flow' = [flow EXCEPT ![f] = [@ EXCEPT !.pc = "compress"]]
          /\ UNCHANGED <<plant_journal, entryIds, appended, persistFailed>>
     ELSE SaveEntry(f, "null")
  /\ UNCHANGED <<now, quota, user, runs>>
  /\ UNCHANGED uiVars
  /\ UNCHANGED sessionVars

\* compressBase64: img.onload fires and the promise resolves
CompressResolves(f) ==
  /\ flow[f].pc = "compress"
  /\ SaveEntry(f, "jpeg")
  /\ UNCHANGED <<now, quota, user, runs>>
  /\ UNCHANGED uiVars
  /\ UNCHANGED sessionVars

\* compressBase64: the image does not load; Image has no onerror handler, so
\* the promise is never settled and handleIdentify stays at its await
CompressFails(f) ==
  /\ flow[f].pc = "compress"
  /\ flow' = [flow EXCEPT ![f] = [@ EXCEPT !.pc = "pending"]]
  /\ UNCHANGED <<now, quota, user, plant_journal, runs, entryIds, appended,
                 persistFailed>>
  /\ UNCHANGED uiVars
  /\ UNCHANGED sessionVars

\* ------------------------------------------------------------------------
\* RemindersScreen
\* The local time zone keeps one UTC offset, so that Date.setDate(getDate()
\* + n) moves the instant by n * 24 hours.
\* ------------------------------------------------------------------------

MinuteMs == 60 * 1000

WeekMs == DefaultFrequency * DayMs

\* the clock runs for one default period and a minute
Horizon == WeekMs + MinuteMs

\* the keys of TASK_ICONS, which are the keys of NotificationSettings
TaskIcons ==
  {"Watering", "Pruning", "Rotating", "Fertilizing", "Mist/Clean", "Repotting", "Other"}

\* DEFAULT_SETTINGS
DEFAULT_SETTINGS == [t \in TaskIcons |-> TRUE]

\* the task buttons the form is exercised with, of
\* ['Watering', 'Pruning', 'Rotating', 'Fertilizing', 'Mist/Clean', 'Other']
FormTasks == {"Watering", "Other"}

\* what the custom-task input may hold
CustomTasks == {"", "Wipe leaves"}

\* what the frequency input may hold
Frequencies == {1, DefaultFrequency}

\* what Number(e.target.value) of the frequency input may be besides: the
\* attribute min="1" keeps no value out of the state, and an emptied input
\* gives Number('') = 0
FrequencyInputs == Frequencies \cup {0, -1}

\* a date moved by one day less than asked
AddDaysShort(t, n) == t + (n - 1) * DayMs

\* nextDue = new Date(); nextDue.setDate(nextDue.getDate() + n)
AddDays(t, n) == t + n * DayMs

\* Math.floor(a / b) for b > 0
Floor(a, b) == a \div b

\* Math.ceil(a / b) for b > 0
Ceil(a, b) == -((-a) \div b)

\* getDayStatus(dateStr) when the clock reads t
getDayStatus(dateStr, t) ==
  LET diff == DateParse(dateStr) - t
      days == Ceil(diff, DayMs)
  IN IF days < 0 THEN [label |-> "Overdue", days |-> days]
     ELSE IF days = 0 THEN [label |-> "Due Today", days |-> days]
     ELSE [label |-> "In days", days |-> days]

\* reminders.map(r => getDayStatus(r.nextDue)) of a render at t; a user who is
\* not Pro gets ProRequiredOverlay instead of the list
Labels(rs, t) ==
  IF user.isPro THEN [i \in 1..Len(rs) |-> getDayStatus(rs[i].nextDue, t)] ELSE <<>>

\* plants.find(p => p.id === selectedPlantId): the index, 0 when none
FindPlant(plants, selectedPlantId) ==
  IF \E i \in 1..Len(plants) : plants[i].id = selectedPlantId
  THEN CHOOSE i \in 1..Len(plants) :
         plants[i].id = selectedPlantId /\ \A j \in 1..(i - 1) : plants[j].id # selectedPlantId
  ELSE 0

\* plant.plant.name
PlantName(plant) == IF "name" \in plant.fields THEN "Fern" ELSE "undefined"

\* the two new Date() of one handler: the second reads t1 or later
ClockReads == { <<now, now + d>> : d \in 0..MaxReadGap }

WithinDrift(t) == t % MinuteMs <= MaxDrift

\* saveReminders(updated), and the render that setReminders brings at t
saveReminders(updated, t) ==
  /\ plant_reminders' = JSONstringify(updated)
  /\ remScreen' = [remScreen EXCEPT !.reminders = updated, !.labels = Labels(updated, t)]

\* the reminder handleAddReminder builds: t1 is read for nextDue, t2 for
\* lastCompleted
NewReminder(id, selectedPlantId, task, customTask, frequency, t1, t2) ==
  LET i == FindPlant(remScreen.plants, selectedPlantId)
  IN [id |-> id,
      plantId |-> IF selectedPlantId = 0 THEN "custom" ELSE selectedPlantId,
      plantName |-> IF i # 0 THEN PlantName(remScreen.plants[i].plant)
                    ELSE "Unknown Plant",
      task |-> IF task = "Other" THEN customTask ELSE task,
      frequencyDays |-> frequency,
      lastCompleted |-> ToISOString(t2),
      nextDue |-> ToISOString(AddDays(t1, frequency))]

\* a completion that advances the old nextDue by one period
\* a completion that looks the plant's name up in the journal again
CompletedInSync(r, t1, t2) ==
  [r EXCEPT !.lastCompleted = ToISOString(t2),
            !.nextDue = ToISOString(t1 + r.frequencyDays * DayMs),
            !.plantName = IF FindPlant(ParseStored(plant_journal).val, r.plantId) # 0
                          THEN r.plantName ELSE "Unknown Plant"]

CompletedFromOldDue(r, t1, t2) ==
  [r EXCEPT !.lastCompleted = ToISOString(t2),
            !.nextDue = ToISOString(AddDays(DateParse(r.nextDue), r.frequencyDays))]

\* a completion that advances by the period the form starts with, whatever
\* the reminder's own
CompletedByDefault(r, t1, t2) ==
  [r EXCEPT !.lastCompleted = ToISOString(t2),
            !.nextDue = ToISOString(AddDays(t1, DefaultFrequency))]

\* the reminder handleComplete puts in place of r
Completed(r, t1, t2) ==
  [r EXCEPT !.lastCompleted = ToISOString(t2),
            !.nextDue = ToISOString(AddDays(t1, r.frequencyDays))]

\* a completion that moves the reminder to the head
CompleteInToHead(rs, id, t1, t2) ==
  LET Hit(r) == r.id = id
      Miss(r) == r.id # id
      hits == SelectSeq(rs, Hit)
  IN [i \in 1..Len(hits) |-> [hits[i] EXCEPT !.lastCompleted = ToISOString(t2),
                                             !.nextDue = ToISOString(t1 + hits[i].frequencyDays * DayMs)]]
     \o SelectSeq(rs, Miss)

\* reminders.map(r => r.id === id ? {...} : r)
CompleteIn(rs, id, t1, t2) ==
  [i \in 1..Len(rs) |-> IF rs[i].id = id THEN Completed(rs[i], t1, t2) ELSE rs[i]]

\* a delete that drops the head when the id is there
DeleteHead(rs, id) ==
  IF \E i \in 1..Len(rs) : rs[i].id = id THEN Tail(rs) ELSE rs

\* reminders.filter(r => r.id !== id)
RECURSIVE DeleteIn(_, _)
DeleteIn(rs, id) ==
  IF rs = <<>> THEN <<>>
  ELSE IF Head(rs).id = id THEN DeleteIn(Tail(rs), id)
  ELSE <<Head(rs)>> \o DeleteIn(Tail(rs), id)

\* the stored reminder collection, as a reader parses it
StoredReminders == ParseStored(plant_reminders).val

HasReminder(rs, id) == \E i \in 1..Len(rs) : rs[i].id = id

\* an effect throws: React unmounts the whole tree
RenderCrash ==
  /\ uncaught' = "render"
  /\ screen' = "none"
  /\ remScreen' = NoScreen
  /\ journalView' = NoView
  /\ activePopup' = NoPopup

UiUp == user # NoUser /\ uncaught # "render"

\* the user opens /reminders: the load effect of RemindersScreen
OpenReminders ==
  /\ UiUp
  /\ screen # "reminders"
  /\ IF ParseStored(plant_reminders).ok /\ ParseStored(plant_journal).ok
     THEN /\ screen' = "reminders"
          /\ remScreen' = [reminders |-> ParseStored(plant_reminders).val,
                           plants |-> ParseStored(plant_journal).val,
                           labels |-> Labels(ParseStored(plant_reminders).val, now)]
          /\ journalView' = NoView
          /\ UNCHANGED <<activePopup, uncaught>>
     ELSE RenderCrash
  /\ lastOp' = NoOp
  /\ UNCHANGED <<now, plant_journal, plant_reminders, settings, reminderIds>>
  /\ UNCHANGED flowVars
  /\ UNCHANGED sessionVars

\* the user opens /history: the load effect of JournalScreen
OpenJournal ==
  /\ UiUp
  /\ screen # "history"
  /\ IF ParseStored(plant_journal).ok
     THEN /\ screen' = "history"
          /\ journalView' = [journal |-> ParseStored(plant_journal).val, entry |-> NoEntry]
          /\ remScreen' = NoScreen
          /\ UNCHANGED <<activePopup, uncaught>>
     ELSE RenderCrash
  /\ lastOp' = NoOp
  /\ UNCHANGED <<now, plant_journal, plant_reminders, settings, reminderIds>>
  /\ UNCHANGED flowVars
  /\ UNCHANGED sessionVars

\* the user opens /history/:id: the effect of JournalEntryDetailScreen; an id
\* the journal does not hold redirects to /history, where JournalScreen loads
OpenDetail(id) ==
  /\ UiUp
  /\ IF ParseStored(plant_journal).ok
     THEN LET journal == ParseStored(plant_journal).val
              i == FindPlant(journal, id)
          IN /\ screen' = IF i # 0 THEN "detail" ELSE "history"
             /\ journalView' = IF i # 0 THEN [journal |-> <<>>, entry |-> journal[i]]
                               ELSE [journal |-> journal, entry |-> NoEntry]
             /\ remScreen' = NoScreen
             /\ UNCHANGED <<activePopup, uncaught>>
     ELSE RenderCrash
  /\ lastOp' = NoOp
  /\ UNCHANGED <<now, plant_journal, plant_reminders, settings, reminderIds>>
  /\ UNCHANGED flowVars
  /\ UNCHANGED sessionVars

\* the user goes to a screen that reads neither collection
Leave ==
  /\ UiUp
  /\ screen # "home"
  /\ screen' = "home"
  /\ remScreen' = NoScreen
  /\ journalView' = NoView
  /\ lastOp' = NoOp
  /\ UNCHANGED <<now, plant_journal, plant_reminders, settings, reminderIds,
                 activePopup, uncaught>>
  /\ UNCHANGED flowVars
  /\ UNCHANGED sessionVars

\* the Save button: selectedPlantId is 0 for the empty option
handleAddReminder(selectedPlantId, task, customTask, frequency) ==
  /\ UiUp
  /\ screen = "reminders"
  /\ user.isPro
  /\ reminderIds < MaxReminders
  /\ IF FindPlant(remScreen.plants, selectedPlantId) = 0 /\ customTask = ""
     THEN UNCHANGED <<now, plant_reminders, remScreen, reminderIds, lastOp, owners>>
     ELSE \E reads \in ClockReads :
            /\ WithinDrift(reads[2])
            /\ now' = reads[2]
            /\ reminderIds' = reminderIds + 1
            /\ saveReminders(
                 <<NewReminder(reminderIds + 1, selectedPlantId, task, customTask,
                               frequency, reads[1], reads[2])>>
                 \o remScreen.reminders, reads[2])
            /\ lastOp' = [NoOp EXCEPT !.kind = "create", !.id = reminderIds + 1,
                                      !.before = StoredReminders, !.at = now,
                                      !.input = <<selectedPlantId, task, customTask,
                                                  frequency>>]
            /\ owners' = Append(owners, user.id)
  /\ UNCHANGED <<plant_journal, settings, screen, journalView, activePopup, uncaught>>
  /\ UNCHANGED flowVars
  /\ UNCHANGED <<accounts, sessions, popupSession>>

\* the "Mark as done" button of reminder id
handleComplete(id) ==
  /\ UiUp
  /\ screen = "reminders"
  /\ user.isPro
  /\ \E reads \in ClockReads :
       LET t == IF HasReminder(remScreen.reminders, id) THEN reads[2] ELSE now
       IN /\ WithinDrift(t)
          /\ now' = t
          /\ saveReminders(CompleteIn(remScreen.reminders, id, reads[1], reads[2]), t)
  /\ lastOp' = IF lastOp.kind = "complete" /\ lastOp.id = id
               THEN [kind |-> "complete", id |-> id, before |-> StoredReminders,
                     at |-> now, twice |-> TRUE, first |-> lastOp.before,
                     firstAt |-> lastOp.at]
               ELSE [NoOp EXCEPT !.kind = "complete", !.id = id,
                                 !.before = StoredReminders, !.at = now]
  /\ UNCHANGED <<plant_journal, settings, screen, journalView, reminderIds,
                 activePopup, uncaught>>
  /\ UNCHANGED flowVars
  /\ UNCHANGED sessionVars

\* the "Delete" button of reminder id
handleDelete(id) ==
  /\ UiUp
  /\ screen = "reminders"
  /\ user.isPro
  /\ saveReminders(DeleteIn(remScreen.reminders, id), now)
  /\ lastOp' = [NoOp EXCEPT !.kind = "delete", !.id = id,
                            !.before = StoredReminders, !.at = now]
  /\ UNCHANGED <<now, plant_journal, settings, screen, journalView, reminderIds,
                 activePopup, uncaught>>
  /\ UNCHANGED flowVars
  /\ UNCHANGED sessionVars

\* String.prototype.toLowerCase() of a task label
LowerCase(task) ==
  CASE task = "Watering" -> "watering"
    [] task = "Other" -> "other"
    [] task = "Wipe leaves" -> "wipe leaves"
    [] OTHER -> task

\* a find that looks at isDue only
FirstDueWhateverSwitch(rs, notif, t) ==
  IF \E i \in 1..Len(rs) : DateParse(rs[i].nextDue) <= t
  THEN CHOOSE i \in 1..Len(rs) :
         DateParse(rs[i].nextDue) <= t /\ \A j \in 1..(i - 1) : DateParse(rs[j].nextDue) > t
  ELSE 0

\* a find whose due test is nextDue < now
FirstDueStrict(rs, notif, t) ==
  LET Eligible(r) ==
        /\ DateParse(r.nextDue) < t
        /\ notif[IF r.task \in TaskIcons THEN r.task ELSE "Other"]
  IN IF \E i \in 1..Len(rs) : Eligible(rs[i])
     THEN CHOOSE i \in 1..Len(rs) :
            Eligible(rs[i]) /\ \A j \in 1..(i - 1) : ~Eligible(rs[j])
     ELSE 0

\* a find that matches nothing
NoneDue(rs, notif, t) == 0

\* a find that returns the last match
LastDue(rs, notif, t) ==
  LET Eligible(r) ==
        /\ DateParse(r.nextDue) <= t
        /\ notif[IF r.task \in TaskIcons THEN r.task ELSE "Other"]
  IN IF \E i \in 1..Len(rs) : Eligible(rs[i])
     THEN CHOOSE i \in 1..Len(rs) :
            Eligible(rs[i]) /\ \A j \in (i + 1)..Len(rs) : ~Eligible(rs[j])
     ELSE 0

\* reminders.find(r => isDue && isEnabled): the index, 0 when none
FirstDue(rs, notif, t) ==
  LET Eligible(r) ==
        /\ DateParse(r.nextDue) <= t
        /\ notif[IF r.task \in TaskIcons THEN r.task ELSE "Other"]
  IN IF \E i \in 1..Len(rs) : Eligible(rs[i])
     THEN CHOOSE i \in 1..Len(rs) :
            Eligible(rs[i]) /\ \A j \in 1..(i - 1) : ~Eligible(rs[j])
     ELSE 0

\* checkSchedule throws: JSON.parse of the reminders or of the settings
CheckThrows(id) == ~ParseStored(plant_reminders).ok \/ settings[id].tag = "garbage"

\* a check that takes the notification down when it finds nothing
RunCheckClearing(u, n, via) ==
  LET reminders == ParseStored(plant_reminders).val
      notif == IF settings[u.id].tag = "json" THEN settings[u.id].val
               ELSE DEFAULT_SETTINGS
      i == FirstDue(reminders, notif, now)
  IN /\ activePopup' =
          IF i # 0 THEN [plantName |-> reminders[i].plantName,
                         task |-> LowerCase(reminders[i].task)]
          ELSE NoPopup
     /\ popupSession' = IF i # 0 THEN n ELSE 0
     /\ lastOp' = [NoOp EXCEPT !.kind = "check",
                               !.id = IF i # 0 THEN reminders[i].id ELSE 0,
                               !.before = reminders, !.at = now, !.input = <<via>>]

\* the body of checkSchedule() in the closure of user u, called in session n
\* by the timer or by the effect that login or upgrade brings
RunCheck(u, n, via) ==
  LET reminders == ParseStored(plant_reminders).val
      notif == IF settings[u.id].tag = "json" THEN settings[u.id].val
               ELSE DEFAULT_SETTINGS
      i == FirstDue(reminders, notif, now)
  IN /\ activePopup' =
          IF i # 0 THEN [plantName |-> reminders[i].plantName,
                         task |-> LowerCase(reminders[i].task)]
          ELSE activePopup
     /\ popupSession' = IF i # 0 THEN n ELSE popupSession
     /\ lastOp' = [NoOp EXCEPT !.kind = "check",
                               !.id = IF i # 0 THEN reminders[i].id ELSE 0,
                               !.before = reminders, !.at = now, !.input = <<via>>]

\* a check that marks what it surfaces as done
checkScheduleCompleting ==
  /\ UiUp
  /\ user.isPro
  /\ ~CheckThrows(user.id)
  /\ RunCheck(user, sessions, "timer")
  /\ plant_reminders' =
       JSONstringify(CompleteIn(StoredReminders, lastOp'.id, now, now))
  /\ UNCHANGED <<now, plant_journal, settings, screen, remScreen, journalView,
                 reminderIds, uncaught, accounts, sessions, owners>>
  /\ UNCHANGED flowVars

\* a check whose timer runs for whoever is logged in
checkScheduleForAll ==
  /\ UiUp
  /\ ~CheckThrows(user.id)
  /\ RunCheck(user, sessions, "timer")
  /\ UNCHANGED <<now, plant_journal, plant_reminders, settings, screen, remScreen,
                 journalView, reminderIds, uncaught, accounts, sessions, owners>>
  /\ UNCHANGED flowVars

\* the interval fires: checkSchedule()
checkSchedule ==
  /\ UiUp
  /\ user.isPro
  /\ IF CheckThrows(user.id)
     THEN /\ uncaught' = "timer"
          /\ UNCHANGED <<activePopup, popupSession, lastOp>>
     ELSE /\ RunCheck(user, sessions, "timer")
          /\ UNCHANGED uncaught
  /\ UNCHANGED <<now, plant_journal, plant_reminders, settings, screen, remScreen,
                 journalView, reminderIds, accounts, sessions, owners>>
  /\ UNCHANGED flowVars

\* the due-check effect runs anew for user u in session n: nothing unless u is
\* Pro, else a first checkSchedule() at once, whose throw unmounts the tree
StartSchedule(u, n, via) ==
  IF u.isPro /\ CheckThrows(u.id)
  THEN /\ RenderCrash
       /\ lastOp' = NoOp
       /\ UNCHANGED popupSession
  ELSE /\ screen' = "home"
       /\ remScreen' = NoScreen
       /\ journalView' = NoView
       /\ UNCHANGED uncaught
       /\ IF u.isPro THEN RunCheck(u, n, via)
          ELSE /\ lastOp' = NoOp
               /\ UNCHANGED <<activePopup, popupSession>>

\* AuthScreen logs the user of that id in: App.handleLogin
handleLogin(id) ==
  /\ user = NoUser
  /\ uncaught # "render"
  /\ sessions < MaxLogins
  /\ user' = [id |-> id, isPro |-> accounts[id]]
  /\ sessions' = sessions + 1
  /\ StartSchedule([id |-> id, isPro |-> accounts[id]], sessions + 1, "login")
  /\ UNCHANGED <<now, quota, plant_journal, plant_reminders, settings, flow, runs,
                 entryIds, reminderIds, appended, persistFailed, accounts, owners>>

\* the Sign Out button of ProfileScreen: App.handleLogout, and the cleanup of
\* the due-check effect
handleLogout ==
  /\ UiUp
  /\ screen = "home"
  /\ user' = NoUser
  /\ screen' = "auth"
  /\ remScreen' = NoScreen
  /\ journalView' = NoView
  /\ lastOp' = NoOp
  /\ UNCHANGED <<now, quota, plant_journal, plant_reminders, settings, flow, runs,
                 entryIds, reminderIds, activePopup, uncaught, appended,
                 persistFailed>>
  /\ UNCHANGED sessionVars

\* the upgrade button of ProfileScreen, shown to a user who is not Pro:
\* authService.upgradeToPro, then App.handleUpgrade
handleUpgrade ==
  /\ UiUp
  /\ screen = "home"
  /\ ~user.isPro
  /\ accounts' = [accounts EXCEPT ![user.id] = TRUE]
  /\ user' = [user EXCEPT !.isPro = TRUE]
  /\ StartSchedule([user EXCEPT !.isPro = TRUE], sessions, "upgrade")
  /\ UNCHANGED <<now, quota, plant_journal, plant_reminders, settings, flow, runs,
                 entryIds, reminderIds, appended, persistFailed, sessions, owners>>

\* a notification switch of ProfileScreen, shown to a Pro user
toggleNotif(key) ==
  /\ UiUp
  /\ screen = "home"
  /\ user.isPro
  /\ settings[user.id].tag # "garbage"
  /\ LET notifSettings == IF settings[user.id].tag = "json" THEN settings[user.id].val
                          ELSE DEFAULT_SETTINGS
         updated == [notifSettings EXCEPT ![key] = ~@]
     IN settings' = [settings EXCEPT ![user.id] = JSONstringify(updated)]
  /\ lastOp' = [NoOp EXCEPT !.kind = "toggle"]
  /\ UNCHANGED <<now, plant_journal, plant_reminders, screen, remScreen, journalView,
                 reminderIds, activePopup, uncaught>>
  /\ UNCHANGED flowVars
  /\ UNCHANGED sessionVars

\* the close button of InAppNotification
closeNotification ==
  /\ UiUp
  /\ activePopup # NoPopup
  /\ activePopup' = NoPopup
  /\ popupSession' = 0
  /\ lastOp' = [NoOp EXCEPT !.kind = "close"]
  /\ UNCHANGED <<now, plant_journal, plant_reminders, settings, screen, remScreen,
                 journalView, reminderIds, uncaught, accounts, sessions, owners>>
  /\ UNCHANGED flowVars

\* time passes
Tick(d) ==
  /\ now + d <= Horizon + MaxDrift
  /\ (now + d) % DayMs <= MinuteMs + MaxDrift
  /\ now' = now + d
  /\ lastOp' = NoOp
  /\ UNCHANGED <<plant_journal, plant_reminders, settings, screen, remScreen,
                 journalView, reminderIds, activePopup, uncaught>>
  /\ UNCHANGED flowVars
  /\ UNCHANGED sessionVars

TickSteps == {MinuteMs, WeekMs}

\* the reminder ids a button may carry, and one no reminder has
ReminderIdsTried == 1..(reminderIds + 1)

\* ------------------------------------------------------------------------
\* Specifications
\* ------------------------------------------------------------------------

\* the identification flow against every remote answer
Next ==
  \/ StartIdentify(1, MaxRuns)
  \/ \E resp \in Responses : IdentifyResolves(1, resp)
  \/ \E hasImage \in BOOLEAN : ImageResolves(1, hasImage)
  \/ CompressResolves(1)

Spec == Init /\ [][Next]_vars

\* the identification flow when every remote call settles and every image
\* load ends, by onload or by an error
LiveNext ==
  \/ StartIdentify(1, MaxRuns)
  \/ \E resp \in Responses : IdentifyResolves(1, resp)
  \/ \E hasImage \in BOOLEAN : ImageResolves(1, hasImage)
  \/ CompressResolves(1)
  \/ CompressFails(1)

LiveSpec ==
  /\ Init
  /\ [][LiveNext]_vars
  /\ WF_vars(\E resp \in Responses : IdentifyResolves(1, resp))
  /\ WF_vars(\E hasImage \in BOOLEAN : ImageResolves(1, hasImage))
  /\ WF_vars(CompressResolves(1) \/ CompressFails(1))

\* the journal filled past its capacity by well-formed identifications
CapNext ==
  \/ StartIdentify(1, MaxCapRuns)
  \/ IdentifyResolves(1, WellFormed)
  \/ ImageResolves(1, TRUE)
  \/ CompressResolves(1)
  \/ OpenJournal
  \/ Leave

CapSpec == CapInit /\ [][CapNext]_vars

\* the journal a first well-formed identification without reference image
\* leaves behind
OnePlant ==
  <<[id |-> 1, timestamp |-> ToISOString(0),
     plant |-> identifyPlant(WellFormed).data, imageUrl |-> "null"]>>

\* App constructed for a Pro user over that journal
ReminderInit ==
  /\ now = 0
  /\ quota = JournalCap
  /\ user = ProUser
  /\ plant_journal = JSONstringify(OnePlant)
  /\ plant_reminders = Absent
  /\ settings = [id \in UserIds |-> Absent]
  /\ Unshared(user, 0)
  /\ flow = [f \in Flows |-> IdleFlow]
  /\ runs = 1
  /\ entryIds = 1
  /\ screen = "home"
  /\ remScreen = NoScreen
  /\ journalView = NoView
  /\ reminderIds = 0
  /\ activePopup = NoPopup
  /\ uncaught = "none"
  /\ appended = <<[id |-> 1, run |-> 1]>>
  /\ persistFailed = FALSE
  /\ lastOp = NoOp

\* the reminders of a garden of one identified plant, as time passes
ReminderNext ==
  \/ OpenReminders
  \/ Leave
  \/ \E p \in 0..entryIds, c \in CustomTasks, n \in Frequencies :
       handleAddReminder(p, "Watering", c, n)
  \/ \E id \in ReminderIdsTried : handleComplete(id)
  \/ \E id \in ReminderIdsTried : handleDelete(id)
  \/ \E d \in TickSteps : Tick(d)

ReminderSpec == ReminderInit /\ [][ReminderNext]_vars

\* the instants getDayStatus is tabulated over: whole days, and a millisecond,
\* a minute and a day less a millisecond past them
Instants ==
  { a * DayMs + b : a \in 0..GridDays, b \in {0, 1, MinuteMs, DayMs - 1} }

\* a Pro user's stored reminder due at any instant, the clock at any instant
StatusInit ==
  /\ now \in Instants
  /\ quota = JournalCap
  /\ user = ProUser
  /\ plant_journal = JSONstringify(OnePlant)
  /\ \E due \in Instants :
       plant_reminders =
         JSONstringify(<<[id |-> 1, plantId |-> 1, plantName |-> "Fern",
                          task |-> "Watering", frequencyDays |-> 1,
                          lastCompleted |-> ToISOString(0),
                          nextDue |-> ToISOString(due)]>>)
  /\ settings = [id \in UserIds |-> Absent]
  /\ Unshared(user, 1)
  /\ flow = [f \in Flows |-> IdleFlow]
  /\ runs = 1
  /\ entryIds = 1
  /\ screen = "home"
  /\ remScreen = NoScreen
  /\ journalView = NoView
  /\ reminderIds = 1
  /\ activePopup = NoPopup
  /\ uncaught = "none"
  /\ appended = <<[id |-> 1, run |-> 1]>>
  /\ persistFailed = FALSE
  /\ lastOp = NoOp

\* RemindersScreen renders the status of that reminder
StatusNext ==
  \/ OpenReminders
  \/ Leave
  \/ checkSchedule

StatusSpec == StatusInit /\ [][StatusNext]_vars

\* a reminder that is due from the start
DueReminder ==
  [id |-> 1, plantId |-> 1, plantName |-> "Fern", task |-> "Watering",
   frequencyDays |-> 1, lastCompleted |-> ToISOString(0), nextDue |-> ToISOString(0)]

\* App constructed over a localStorage whose keys are missing, hold what the
\* app wrote, or hold text that is not JSON
TamperedInit ==
  /\ now = 0
  /\ quota = JournalCap
  /\ user \in {FreeUser, ProUser}
  /\ plant_journal \in {Absent, Garbage, JSONstringify(OnePlant)}
  /\ plant_reminders \in {Absent, Garbage, JSONstringify(<<DueReminder>>)}
  /\ settings \in [UserIds -> {Absent, Garbage}]
  /\ Unshared(user, 1)
  /\ flow = [f \in Flows |-> IdleFlow]
  /\ runs = 0
  /\ entryIds = 1
  /\ screen = "home"
  /\ remScreen = NoScreen
  /\ journalView = NoView
  /\ reminderIds = 1
  /\ activePopup = NoPopup
  /\ uncaught = "none"
  /\ appended = <<>>
  /\ persistFailed = FALSE
  /\ lastOp = NoOp

\* the readers of the stored collections
TamperedNext ==
  \/ OpenReminders
  \/ OpenJournal
  \/ \E id \in 1..(entryIds + 1) : OpenDetail(id)
  \/ Leave
  \/ checkSchedule

TamperedSpec == TamperedInit /\ [][TamperedNext]_vars

\* a stored reminder of that task, due at that instant
StoredReminder(task, due) ==
  [DueReminder EXCEPT !.task = task, !.nextDue = ToISOString(due)]

\* the collections u1 may have stored: up to MaxStored reminders, each for
\* Watering or a custom task, each due at once or after a day
Collections ==
  LET kinds == { StoredReminder(t, d) : t \in {"Watering", "Wipe leaves"},
                                        d \in {0, DayMs} }
  IN { [i \in 1..Len(rs) |-> [rs[i] EXCEPT !.id = i]] : rs \in SeqsUpTo(kinds, MaxStored) }

\* App constructed for the Pro user u1 over such a collection
DueInit ==
  /\ now = 0
  /\ quota = JournalCap
  /\ user = ProUser
  /\ plant_journal = JSONstringify(OnePlant)
  /\ \E rs \in Collections :
       /\ plant_reminders = JSONstringify(rs)
       /\ reminderIds = Len(rs)
       /\ Unshared(ProUser, Len(rs))
  /\ settings = [id \in UserIds |-> Absent]
  /\ flow = [f \in Flows |-> IdleFlow]
  /\ runs = 1
  /\ entryIds = 1
  /\ screen = "home"
  /\ remScreen = NoScreen
  /\ journalView = NoView
  /\ activePopup = NoPopup
  /\ uncaught = "none"
  /\ appended = <<[id |-> 1, run |-> 1]>>
  /\ persistFailed = FALSE
  /\ lastOp = NoOp

\* the due check against the notification switches, as time passes
DueNext ==
  \/ checkSchedule
  \/ \E key \in {"Watering", "Other"} : toggleNotif(key)
  \/ closeNotification
  \/ \E d \in TickSteps : Tick(d)

DueSpec == DueInit /\ [][DueNext]_vars

\* App constructed with nobody logged in; u1 is Pro, u2 is not
SessionInit ==
  /\ now = 0
  /\ quota = JournalCap
  /\ user = NoUser
  /\ plant_journal = JSONstringify(OnePlant)
  /\ plant_reminders = Absent
  /\ settings = [id \in UserIds |-> Absent]
  /\ accounts = [id \in UserIds |-> id = "u1"]
  /\ sessions = 0
  /\ popupSession = 0
  /\ owners = <<>>
  /\ flow = [f \in Flows |-> IdleFlow]
  /\ runs = 1
  /\ entryIds = 1
  /\ screen = "auth"
  /\ remScreen = NoScreen
  /\ journalView = NoView
  /\ reminderIds = 0
  /\ activePopup = NoPopup
  /\ uncaught = "none"
  /\ appended = <<[id |-> 1, run |-> 1]>>
  /\ persistFailed = FALSE
  /\ lastOp = NoOp

\* two users on one device, one after the other
SessionNext ==
  \/ \E id \in UserIds : handleLogin(id)
  \/ handleLogout
  \/ handleUpgrade
  \/ OpenReminders
  \/ Leave
  \/ handleAddReminder(1, "Watering", "", 1)
  \/ \E id \in ReminderIdsTried : handleComplete(id)
  \/ \E id \in ReminderIdsTried : handleDelete(id)
  \/ checkSchedule
  \/ closeNotification
  \/ Tick(WeekMs)

SessionSpec == SessionInit /\ [][SessionNext]_vars

\* the form of RemindersScreen with whatever its fields may hold
FormNext ==
  \/ OpenReminders
  \/ Leave
  \/ \E p \in 0..entryIds, t \in FormTasks, c \in CustomTasks, n \in FrequencyInputs :
       handleAddReminder(p, t, c, n)
  \/ \E id \in ReminderIdsTried : handleComplete(id)
  \/ \E id \in ReminderIdsTried : handleDelete(id)

FormSpec == ReminderInit /\ [][FormNext]_vars

\* the collections left from earlier sessions, most recently created first,
\* for Watering and a custom task in turn: the ids crypto.randomUUID() gave
\* then are 0, -1, ...
OlderCollections ==
  { [i \in 1..n |->
       [StoredReminder(IF i % 2 = 1 THEN "Watering" ELSE "Wipe leaves", DayMs)
          EXCEPT !.id = 1 - i]] : n \in 0..MaxStored }

\* the reminder ids a button may carry over such a collection, and one no
\* reminder has
EditIds == (1 - MaxStored)..(reminderIds + 1)

\* App constructed for the Pro user u1 over such a collection
EditInit ==
  /\ now = 0
  /\ quota = JournalCap
  /\ user = ProUser
  /\ plant_journal = JSONstringify(OnePlant)
  /\ plant_reminders \in { JSONstringify(rs) : rs \in OlderCollections }
  /\ settings = [id \in UserIds |-> Absent]
  /\ Unshared(ProUser, 0)
  /\ flow = [f \in Flows |-> IdleFlow]
  /\ runs = 1
  /\ entryIds = 1
  /\ screen = "home"
  /\ remScreen = NoScreen
  /\ journalView = NoView
  /\ reminderIds = 0
  /\ activePopup = NoPopup
  /\ uncaught = "none"
  /\ appended = <<[id |-> 1, run |-> 1]>>
  /\ persistFailed = FALSE
  /\ lastOp = NoOp

\* reminders created, completed and deleted over a collection that is there
EditNext ==
  \/ OpenReminders
  \/ Leave
  \/ handleAddReminder(1, "Watering", "", DefaultFrequency)
  \/ \E id \in EditIds : handleComplete(id)
  \/ \E id \in EditIds : handleDelete(id)

EditSpec == EditInit /\ [][EditNext]_vars

\* the notification of the due check while the reminders it is about are
\* completed and deleted, their category switched, and time passes
NoticeNext ==
  \/ OpenReminders
  \/ Leave
  \/ \E id \in EditIds : handleComplete(id)
  \/ \E id \in EditIds : handleDelete(id)
  \/ checkSchedule
  \/ toggleNotif("Watering")
  \/ closeNotification
  \/ Tick(WeekMs)

NoticeSpec == EditInit /\ [][NoticeNext]_vars

\* identifications made once the journal is as long as storage takes
MaxEvictions == 2

\* the journal after k well-formed identifications, the most recent first
FullJournal(k) ==
  [i \in 1..k |-> [id |-> k - i + 1, timestamp |-> ToISOString(0),
                   plant |-> identifyPlant(WellFormed).data, imageUrl |-> "jpeg"]]

\* a Pro user's garden with as many identified plants as storage takes, the
\* whole journal or only the fallback's part of it
GardenInit ==
  /\ now = 0
  /\ quota \in {FallbackCap, JournalCap}
  /\ user = ProUser
  /\ plant_journal = JSONstringify(FullJournal(quota))
  /\ plant_reminders = Absent
  /\ settings = [id \in UserIds |-> Absent]
  /\ Unshared(user, 0)
  /\ flow = [f \in Flows |-> IdleFlow]
  /\ runs = quota
  /\ entryIds = quota
  /\ screen = "home"
  /\ remScreen = NoScreen
  /\ journalView = NoView
  /\ reminderIds = 0
  /\ activePopup = NoPopup
  /\ uncaught = "none"
  /\ appended = [i \in 1..quota |-> [id |-> i, run |-> i]]
  /\ persistFailed = FALSE
  /\ lastOp = NoOp

\* the journal grows past its capacity while a reminder for the first plant
\* is created, completed and deleted, the journal read, a switch toggled and
\* the due check run
GardenNext ==
  \/ StartIdentify(1, quota + MaxEvictions)
  \/ IdentifyResolves(1, WellFormed)
  \/ ImageResolves(1, TRUE)
  \/ CompressResolves(1)
  \/ OpenReminders
  \/ OpenJournal
  \/ Leave
  \/ handleAddReminder(1, "Watering", "", DefaultFrequency)
  \/ \E id \in ReminderIdsTried : handleComplete(id)
  \/ \E id \in ReminderIdsTried : handleDelete(id)
  \/ checkSchedule
  \/ toggleNotif("Watering")

GardenSpec == GardenInit /\ [][GardenNext]_vars

\* identifications started from several IdentifyScreen instances (the screen
\* left and opened again while a scan is awaited), their calls settling in
\* any order, with room in storage for every entry
ConcurrentInit == Boot({JournalCap})

ConcurrentNext ==
  \/ \E f \in Flows : StartIdentify(f, MaxRuns)
  \/ \E f \in Flows, resp \in {WellFormed, Fenced, [rejected |-> TRUE, text |-> <<>>]} :
       IdentifyResolves(f, resp)
  \/ \E f \in Flows, hasImage \in BOOLEAN : ImageResolves(f, hasImage)
  \/ \E f \in Flows : CompressResolves(f)

ConcurrentSpec == ConcurrentInit /\ [][ConcurrentNext]_vars

\* ------------------------------------------------------------------------
\* Properties
\* ------------------------------------------------------------------------

StoredJournal == ParseStored(plant_journal).val

Due(r) == DateParse(r.nextDue)

Done(r) == DateParse(r.lastCompleted)

Period(r) == r.frequencyDays * DayMs

\* C1 (CapSpec): as long as no write of the journal was rejected, the stored
\* journal holds the JournalCap most recently appended entries, or all of
\* them when there are no more than JournalCap, the most recent first.
JournalKeepsMostRecent ==
  ~persistFailed =>
    LET n == Len(appended)
        kept == IF n < JournalCap THEN n ELSE JournalCap
    IN /\ Len(StoredJournal) = kept
       /\ \A k \in 1..kept : StoredJournal[k].id = appended[n - k + 1].id

\* more entries were appended than the journal keeps, none was rejected, and
\* the journal list shows what is stored
JournalOverflowed ==
  /\ Len(appended) > JournalCap
  /\ ~persistFailed
  /\ screen = "history"
  /\ journalView.journal = StoredJournal
  /\ Len(StoredJournal) = JournalCap

\* C2 (Spec), as the claim states it: an identification during which a write
\* of the journal was rejected still ends by showing its result, never by the
\* scan-failed alert.
RejectedWriteNeverSurfaces ==
  \A f \in Flows :
    flow[f].pc = "done" /\ flow[f].rejected > 0 => flow[f].outcome = "result"

\* C3 (TamperedSpec), as the claim states it: whatever the three storage keys
\* hold, no reader ends in an uncaught error, and a journal that is absent or
\* not JSON is listed as empty.
StoredDataReadAsEmpty ==
  /\ uncaught = "none"
  /\ screen = "history" /\ plant_journal \in {Absent, Garbage} =>
       journalView.journal = <<>>

\* C4 (Spec), as the claim states it: an identification whose response text
\* is no JSON, whole or in part, ends by the scan-failed alert and appends
\* nothing to the journal.
UnparseableResponseFails ==
  \A f \in Flows :
    flow[f].pc = "done" /\ flow[f].unparseable =>
      /\ flow[f].outcome = "alert"
      /\ \A k \in 1..Len(appended) : appended[k].run # flow[f].run

\* C5 (Spec), as the claim states it: every entry of the stored journal holds
\* a plant record that is an object with all the required fields.
EntriesAreValidated ==
  \A k \in 1..Len(StoredJournal) :
    /\ StoredJournal[k].plant.kind = "object"
    /\ RequiredFields \subseteq StoredJournal[k].plant.fields

\* C6 (ReminderSpec), as the claim states it: every stored reminder has
\* nextDue = lastCompleted + frequencyDays days.
DueIsDonePlusPeriod ==
  \A i \in 1..Len(StoredReminders) :
    Due(StoredReminders[i]) = Done(StoredReminders[i]) + Period(StoredReminders[i])

\* C7 (ReminderSpec): handleComplete(id) gives the reminder of that id a
\* lastCompleted that is a clock reading of the call and a nextDue that is a
\* clock reading of the call plus frequencyDays days, whatever nextDue was;
\* frequencyDays and every other field stay, and so does every other reminder.
\* When no reminder has that id the stored collection is what it was.
CompleteRecomputesFromNow ==
  lastOp.kind = "complete" =>
    /\ Len(StoredReminders) = Len(lastOp.before)
    /\ \A i \in 1..Len(lastOp.before) :
         LET old == lastOp.before[i]
             new == StoredReminders[i]
         IN IF old.id = lastOp.id
            THEN /\ new.frequencyDays = old.frequencyDays
                 /\ Done(new) \in lastOp.at..now
                 /\ Due(new) - Period(old) \in lastOp.at..now
                 /\ new = [old EXCEPT !.lastCompleted = new.lastCompleted,
                                      !.nextDue = new.nextDue]
            ELSE new = old
    /\ ~HasReminder(lastOp.before, lastOp.id) => StoredReminders = lastOp.before

\* an overdue reminder was completed at t and is next due at t + frequencyDays
OverdueCompleted ==
  /\ lastOp.kind = "complete"
  /\ \E i \in 1..Len(lastOp.before) :
       /\ lastOp.before[i].id = lastOp.id
       /\ Due(lastOp.before[i]) < lastOp.at
       /\ Due(StoredReminders[i]) = lastOp.at + Period(lastOp.before[i])
       /\ Done(StoredReminders[i]) = now

\* C8 (ReminderSpec), as the claim states it: after handleComplete(id) twice in
\* immediate succession nextDue is two periods past what it was before the
\* first call.
CompleteTwiceAdvancesTwice ==
  lastOp.twice =>
    \A i \in 1..Len(lastOp.before) :
      lastOp.before[i].id = lastOp.id =>
        Due(StoredReminders[i]) = Due(lastOp.first[i]) + 2 * Period(lastOp.first[i])

\* C8 (ReminderSpec), amended: each of two handleComplete(id) in immediate
\* succession sets nextDue to a clock reading of that call plus the
\* reminder's own frequencyDays days, so that the second call moves nextDue by
\* no more than the clock moved since the first call, and not by a period.
CompleteTwiceRecomputes ==
  lastOp.twice =>
    \A i \in 1..Len(lastOp.before) :
      lastOp.before[i].id = lastOp.id =>
        /\ lastOp.before[i].frequencyDays = lastOp.first[i].frequencyDays
        /\ Due(StoredReminders[i]) - Period(lastOp.first[i]) \in lastOp.at..now
        /\ Due(StoredReminders[i]) - Due(lastOp.before[i]) \in 0..(now - lastOp.firstAt)

\* a reminder whose period is not the form's was completed twice in a row
CompletedTwice ==
  /\ lastOp.twice
  /\ \E i \in 1..Len(lastOp.before) :
       /\ lastOp.before[i].id = lastOp.id
       /\ lastOp.first[i].frequencyDays # DefaultFrequency
       /\ Due(StoredReminders[i]) = lastOp.at + Period(lastOp.first[i])

\* C9 (StatusSpec): the status RemindersScreen renders at the clock reading
\* now has days = ceil((nextDue - now) / DayMs), that is the one integer c
\* with (c - 1) days < nextDue - now <= c days, and the label 'Overdue' for
\* c < 0, 'Due Today' for c = 0, 'In c days' for c > 0; nextDue = now gives
\* 'Due Today'.
StatusIsCeilOfDays ==
  screen = "reminders" =>
    /\ Len(remScreen.labels) = Len(remScreen.reminders)
    /\ \A i \in 1..Len(remScreen.reminders) :
         LET diff == Due(remScreen.reminders[i]) - now
             c == remScreen.labels[i].days
         IN /\ (c - 1) * DayMs < diff
            /\ diff <= c * DayMs
            /\ remScreen.labels[i].label =
                 IF c < 0 THEN "Overdue" ELSE IF c = 0 THEN "Due Today" ELSE "In days"
            /\ diff = 0 => remScreen.labels[i].label = "Due Today"

\* the screen shows a reminder that is due at this very instant
DueRightNow ==
  /\ screen = "reminders"
  /\ Len(remScreen.reminders) = 1
  /\ Due(remScreen.reminders[1]) = now
  /\ remScreen.labels[1].label = "Due Today"

\* C10 (ReminderSpec), as the claim states it: a reminder of frequencyDays 7
\* is 'Overdue' a minute past its nextDue.
WeeklyOverdueAfterAMinute ==
  \A i \in 1..Len(StoredReminders) :
    /\ StoredReminders[i].frequencyDays = DefaultFrequency
    /\ now = Due(StoredReminders[i]) + MinuteMs
    => getDayStatus(StoredReminders[i].nextDue, now).label = "Overdue"

\* C10 (ReminderSpec), amended: a reminder created with frequencyDays 7 when
\* the clock reads T0 has nextDue = T0 + 7 days; a minute past nextDue its
\* status is 'Due Today', and a status is 'Overdue' only a full day or more
\* past nextDue.
WeeklyDueTodayAfterAMinute ==
  /\ lastOp.kind = "create" =>
       /\ StoredReminders # <<>>
       /\ StoredReminders[1].id = lastOp.id
       /\ StoredReminders[1].frequencyDays = DefaultFrequency =>
            Due(StoredReminders[1]) = lastOp.at + DefaultFrequency * DayMs
  /\ \A i \in 1..Len(StoredReminders) :
       /\ StoredReminders[i].frequencyDays = DefaultFrequency
          /\ now = Due(StoredReminders[i]) + MinuteMs
          => getDayStatus(StoredReminders[i].nextDue, now).label = "Due Today"
       /\ getDayStatus(StoredReminders[i].nextDue, now).label = "Overdue"
          => now - Due(StoredReminders[i]) >= DayMs

\* the screen shows a weekly reminder created at 0 a minute after it fell due
WeeklyAMinuteLate ==
  /\ screen = "reminders"
  /\ \E i \in 1..Len(remScreen.reminders) :
       /\ remScreen.reminders[i].frequencyDays = DefaultFrequency
       /\ Due(remScreen.reminders[i]) = WeekMs
       /\ now = WeekMs + MinuteMs
       /\ remScreen.labels[i].label = "Due Today"

\* the notification switches checkSchedule reads for the logged-in user
Switches ==
  IF settings[user.id].tag = "json" THEN settings[user.id].val ELSE DEFAULT_SETTINGS

\* the category whose switch governs a task label
Category(task) == IF task \in TaskIcons THEN task ELSE "Other"

\* the message `${due.plantName} needs ${due.task.toLowerCase()}!`
Message(r) == [plantName |-> r.plantName, task |-> LowerCase(r.task)]

\* C11 (DueSpec): what a due check surfaces is a stored reminder with
\* nextDue <= now whose category, 'Other' for a task that is none of the
\* fixed labels, is switched on for the logged-in user; and a check surfaces
\* nothing only when no stored reminder is both.
CheckHonoursSwitches ==
  lastOp.kind = "check" =>
    /\ lastOp.id # 0 =>
         \E i \in 1..Len(StoredReminders) :
           /\ StoredReminders[i].id = lastOp.id
           /\ Due(StoredReminders[i]) <= now
           /\ Switches[Category(StoredReminders[i].task)]
           /\ activePopup = Message(StoredReminders[i])
    /\ lastOp.id = 0 =>
         \A i \in 1..Len(StoredReminders) :
           Due(StoredReminders[i]) > now \/ ~Switches[Category(StoredReminders[i].task)]

\* a check ran over an overdue Watering reminder with Watering switched off,
\* and surfaced nothing
OverdueButSwitchedOff ==
  /\ lastOp.kind = "check"
  /\ lastOp.id = 0
  /\ activePopup = NoPopup
  /\ ~Switches["Watering"]
  /\ \E i \in 1..Len(StoredReminders) :
       StoredReminders[i].task = "Watering" /\ Due(StoredReminders[i]) < now

\* C12 (DueSpec): a due check surfaces the first reminder, in stored order,
\* that is due and switched on, and no other; the notification shown is that
\* of one stored reminder.
CheckSurfacesFirstOnly ==
  /\ lastOp.kind = "check" /\ lastOp.id # 0 =>
       \A i \in 1..Len(StoredReminders) :
         StoredReminders[i].id = lastOp.id =>
           /\ activePopup = Message(StoredReminders[i])
           /\ \A j \in 1..(i - 1) :
                Due(StoredReminders[j]) > now
                \/ ~Switches[Category(StoredReminders[j].task)]
  /\ activePopup # NoPopup =>
       \E i \in 1..Len(StoredReminders) : activePopup = Message(StoredReminders[i])

\* two reminders with different messages were eligible at once and the check
\* surfaced the one stored first
TwoEligibleOneSurfaced ==
  /\ lastOp.kind = "check"
  /\ Len(StoredReminders) >= 2
  /\ lastOp.id = StoredReminders[1].id
  /\ Due(StoredReminders[2]) <= now
  /\ Switches[Category(StoredReminders[2].task)]
  /\ Message(StoredReminders[2]) # Message(StoredReminders[1])
  /\ activePopup = Message(StoredReminders[1])

\* C13 (DueSpec): a step that is a due check leaves the stored reminders, the
\* journal and the notification settings as they were.
CheckIsReadOnly ==
  [][lastOp'.kind = "check" =>
       /\ plant_reminders' = plant_reminders
       /\ plant_journal' = plant_journal
       /\ settings' = settings]_vars

\* a check surfaced a reminder, which is as due after it as it was before
SurfacedNotCompleted ==
  /\ lastOp.kind = "check"
  /\ lastOp.id # 0
  /\ StoredReminders = lastOp.before
  /\ \E i \in 1..Len(StoredReminders) :
       /\ StoredReminders[i].id = lastOp.id
       /\ Due(StoredReminders[i]) <= now
       /\ Done(StoredReminders[i]) < now

\* C14 (SessionSpec), as the claim states it: nobody logged in, no check has
\* just run; and a notification shown to a logged-in user was raised in the
\* session that user is in.
NoNotificationPastLogout ==
  /\ user = NoUser => lastOp.kind # "check"
  /\ user # NoUser /\ activePopup # NoPopup => popupSession = sessions

\* C15 (FormSpec), as the claim states it: a reminder is created only when
\* the selected plant is in the journal, or the task is 'Other' with a custom
\* label that is not empty.
CreateNeedsPlantOrOtherLabel ==
  lastOp.kind = "create" =>
    \/ FindPlant(StoredJournal, lastOp.input[1]) # 0
    \/ lastOp.input[2] = "Other" /\ lastOp.input[3] # ""

\* C16 (FormSpec), as the claim states it: every stored reminder has
\* frequencyDays >= 1.
FrequencyIsPositive ==
  \A i \in 1..Len(StoredReminders) : StoredReminders[i].frequencyDays >= 1

\* C17 (FormSpec), as the claim states it: every stored reminder's task is a
\* fixed label or a custom label that is not empty.
TaskIsLabelled ==
  \A i \in 1..Len(StoredReminders) :
    /\ StoredReminders[i].task # ""
    /\ StoredReminders[i].task \in TaskIcons \cup CustomTasks

\* C18 (SessionSpec), as the claim states it: the reminders RemindersScreen
\* lists, and the reminder a due check surfaces, were created by the user who
\* is logged in.
RemindersArePrivate ==
  /\ screen = "reminders" /\ user.isPro =>
       \A i \in 1..Len(remScreen.reminders) :
         owners[remScreen.reminders[i].id] = user.id
  /\ lastOp.kind = "check" /\ lastOp.id # 0 => owners[lastOp.id] = user.id

\* C19 (SessionSpec): while the logged-in user is not Pro, the last thing
\* done is no due check and no create, complete or delete of a reminder, and
\* a notification that is up was raised in an earlier session; the check that
\* the upgrade brings runs for a Pro user.
SchedulerNeedsPro ==
  /\ user # NoUser /\ ~user.isPro =>
       /\ lastOp.kind \notin {"check", "create", "complete", "delete"}
       /\ activePopup # NoPopup => popupSession < sessions
  /\ lastOp.kind = "check" => user.isPro /\ accounts[user.id]

\* a user who was not Pro upgraded, and the check that followed at once
\* surfaced a due reminder
CheckedRightAfterUpgrade ==
  /\ lastOp.kind = "check"
  /\ lastOp.input = <<"upgrade">>
  /\ user = [id |-> "u2", isPro |-> TRUE]
  /\ lastOp.id # 0
  /\ popupSession = sessions

\* C20 (LiveSpec), as the claim states it: an identification that is loading
\* comes to leave the loading state, with its result or the scan-failed alert.
IdentificationTerminates ==
  \A f \in Flows :
    flow[f].loading ~>
      (~flow[f].loading /\ flow[f].pc = "done"
       /\ flow[f].outcome \in {"result", "alert"})

\* the ids of a collection, in stored order
Ids(rs) == [i \in 1..Len(rs) |-> rs[i].id]

\* C21 (EditSpec): handleDelete(id) leaves stored the reminders of every other
\* id, each as it was and in the order they were in, and one reminder fewer
\* when that id was there; the collection is what it was when it was not.
DeleteRemovesThatOne ==
  lastOp.kind = "delete" =>
    LET Others(r) == r.id # lastOp.id
    IN /\ StoredReminders = SelectSeq(lastOp.before, Others)
       /\ Len(StoredReminders) =
            IF HasReminder(lastOp.before, lastOp.id) THEN Len(lastOp.before) - 1
            ELSE Len(lastOp.before)
       /\ ~HasReminder(lastOp.before, lastOp.id) => StoredReminders = lastOp.before

\* of three reminders the middle one was deleted and the two around it stay
\* as they were
MiddleDeleted ==
  /\ lastOp.kind = "delete"
  /\ Len(lastOp.before) = 3
  /\ lastOp.before[2].id = lastOp.id
  /\ StoredReminders = <<lastOp.before[1], lastOp.before[3]>>

\* C24 (EditSpec): the stored reminders are in the order of their creation,
\* the most recent first (ids are handed out in rising order); a create puts
\* the new reminder before all that were there, and a complete leaves every
\* reminder at its place.
NewestReminderFirst ==
  /\ \A i, j \in 1..Len(StoredReminders) :
       i < j => StoredReminders[i].id > StoredReminders[j].id
  /\ lastOp.kind = "create" =>
       /\ StoredReminders # <<>>
       /\ Head(StoredReminders).id = lastOp.id
       /\ Tail(StoredReminders) = lastOp.before
  /\ lastOp.kind = "complete" => Ids(StoredReminders) = Ids(lastOp.before)

\* a reminder was created over two older ones, and the one in the middle
\* completed
MiddleCompleted ==
  /\ lastOp.kind = "complete"
  /\ Len(StoredReminders) = 3
  /\ StoredReminders[1].id = reminderIds
  /\ StoredReminders[2].id = lastOp.id
  /\ Done(StoredReminders[2]) = now
  /\ StoredReminders[2] # lastOp.before[2]

\* C23 (FormSpec), as the claim states it: right after handleComplete the
\* reminder is Scheduled again: its nextDue is later than now and no due check
\* would pick it, whatever the switches.
CompleteReschedules ==
  lastOp.kind = "complete" =>
    \A i \in 1..Len(StoredReminders) :
      StoredReminders[i].id = lastOp.id =>
        /\ Due(StoredReminders[i]) > now
        /\ FirstDue(<<StoredReminders[i]>>, DEFAULT_SETTINGS, now) = 0

\* a stored reminder that a due check of the logged-in user would pick
Eligible(r) == Due(r) <= now /\ Switches[Category(r.task)]

\* C26 (NoticeSpec): while two stored reminders are both eligible, no due
\* check surfaces the one stored later; it is surfaced only once the earlier
\* one is completed, deleted or switched off.
LaterOneWaits ==
  [][\A i, j \in 1..Len(StoredReminders) :
       (i < j /\ Eligible(StoredReminders[i]) /\ Eligible(StoredReminders[j]))
         => ~(lastOp'.kind = "check" /\ lastOp'.id = StoredReminders[j].id)]_vars

\* the reminder stored second is surfaced, the one stored first having been
\* completed while it was due
LaterOneSurfacedAtLast ==
  /\ lastOp.kind = "check"
  /\ Len(StoredReminders) = 2
  /\ lastOp.id = StoredReminders[2].id
  /\ activePopup = Message(StoredReminders[2])
  /\ Done(StoredReminders[1]) > 0
  /\ Due(StoredReminders[1]) > now

\* C27 (SessionSpec): right after a due check of a logged-in Pro user, made
\* at login, at upgrade or by the timer, that found some stored reminder
\* eligible, the notification of this session is up and names an eligible
\* reminder; so a closed notification is up again after the next check.
EligibleIsNotified ==
  (lastOp.kind = "check" /\ \E i \in 1..Len(StoredReminders) : Eligible(StoredReminders[i]))
    => /\ user.isPro
       /\ popupSession = sessions
       /\ \E i \in 1..Len(StoredReminders) :
            /\ Eligible(StoredReminders[i])
            /\ lastOp.id = StoredReminders[i].id
            /\ activePopup = Message(StoredReminders[i])

\* the check that login brings found a due reminder and raised its
\* notification
NotifiedAtLogin ==
  /\ lastOp.kind = "check"
  /\ lastOp.input = <<"login">>
  /\ user.isPro
  /\ StoredReminders # <<>>
  /\ Eligible(StoredReminders[1])
  /\ activePopup = Message(StoredReminders[1])
  /\ popupSession = sessions

\* C28 (NoticeSpec): the notification changes only by the user's close, which
\* takes it down, or by a due check that found an eligible reminder, which
\* puts that reminder's message up; a complete, a delete, a switch or a check
\* that finds nothing leaves it as it is.
NotificationStaysUp ==
  [][activePopup' # activePopup =>
       \/ lastOp'.kind = "close" /\ activePopup' = NoPopup
       \/ /\ lastOp'.kind = "check"
          /\ \E i \in 1..Len(StoredReminders) :
               /\ lastOp'.id = StoredReminders[i].id
               /\ activePopup' = Message(StoredReminders[i])]_vars

\* the notification is up, the reminder it names deleted, and a check that
\* found nothing has run since
NotifiedOfDeleted ==
  /\ activePopup # NoPopup
  /\ lastOp.kind = "check"
  /\ lastOp.id = 0
  /\ \A i \in 1..Len(StoredReminders) : activePopup # Message(StoredReminders[i])

\* the flows whose calls are awaited
InFlight == { f \in Flows : flow[f].pc \in {"identify", "image", "compress"} }

\* C30 (ConcurrentSpec): with identifications in flight at once and their
\* calls settling in any order, the entry of every identification that
\* reached its write is in the stored journal, those written later before
\* those written earlier: no write overwrites the entry of another flow.
NoLostEntry ==
  /\ ~persistFailed
  /\ Len(StoredJournal) = Len(appended)
  /\ \A k \in 1..Len(appended) :
       StoredJournal[Len(appended) - k + 1].id = appended[k].id
  /\ \A f \in Flows :
       flow[f].pc = "done" /\ flow[f].outcome = "result" =>
         \E k \in 1..Len(appended) : appended[k].run = flow[f].run

\* two flows were in flight at once, the one started second wrote first, and
\* both show their result
SecondWroteFirst ==
  /\ Len(appended) = 2
  /\ appended[1].run = 2
  /\ appended[2].run = 1
  /\ \E f, g \in Flows :
       /\ f # g
       /\ flow[f].run = 1 /\ flow[f].outcome = "result"
       /\ flow[g].run = 2 /\ flow[g].outcome = "result"
  /\ Len(StoredJournal) = 2

\* C29 (StatusSpec): for a reminder whose status is on screen and over which
\* a due check has run at the same clock reading, the check found it due
\* (nextDue <= now) exactly when the status is 'Overdue' or 'Due Today', the
\* status is 'In N days' with N >= 1 exactly when nextDue > now, and it is
\* 'Overdue' exactly when now is a full day or more past nextDue.
StatusAgreesWithCheck ==
  (screen = "reminders" /\ lastOp.kind = "check") =>
    \A i \in 1..Len(remScreen.reminders) :
      LET r == remScreen.reminders[i]
          status == remScreen.labels[i]
      IN /\ (lastOp.id = r.id) <=> status.label \in {"Overdue", "Due Today"}
         /\ (Due(r) <= now) <=> status.label \in {"Overdue", "Due Today"}
         /\ (status.label = "In days" /\ status.days >= 1) <=> Due(r) > now
         /\ status.label = "Overdue" <=> now >= Due(r) + DayMs

\* a reminder a minute past its nextDue is shown 'Due Today' and the check
\* has surfaced it
DueTodayAndSurfaced ==
  /\ screen = "reminders"
  /\ lastOp.kind = "check"
  /\ Len(remScreen.reminders) = 1
  /\ lastOp.id = remScreen.reminders[1].id
  /\ now - Due(remScreen.reminders[1]) = MinuteMs
  /\ remScreen.labels[1].label = "Due Today"

\* C22 (GardenSpec): a step changes a stored reminder only if it is the
\* handleComplete of that reminder's id, and then nothing but its
\* lastCompleted and nextDue; so plantName stays what handleAddReminder took
\* from the journal, whatever is appended to the journal or evicted from it.
OnlyCompleteMutates ==
  [][/\ \A i \in 1..Len(StoredReminders), j \in 1..Len(StoredReminders') :
          StoredReminders[i].id = StoredReminders'[j].id =>
            IF lastOp'.kind = "complete" /\ lastOp'.id = StoredReminders[i].id
            THEN [StoredReminders'[j] EXCEPT
                    !.lastCompleted = StoredReminders[i].lastCompleted,
                    !.nextDue = StoredReminders[i].nextDue] = StoredReminders[i]
            ELSE StoredReminders'[j] = StoredReminders[i]
     /\ (plant_journal' # plant_journal \/ flow' # flow)
          => plant_reminders' = plant_reminders]_vars

\* a reminder created for the first plant was completed after that plant's
\* entry had been evicted from the journal, and still bears the plant's name
CompletedAfterEviction ==
  /\ lastOp.kind = "complete"
  /\ Len(StoredReminders) = 1
  /\ lastOp.id = StoredReminders[1].id
  /\ StoredReminders[1] # lastOp.before[1]
  /\ StoredReminders[1].plantId = 1
  /\ StoredReminders[1].plantName = "Fern"
  /\ FindPlant(StoredJournal, 1) = 0

\* C25 (GardenSpec): a step changes the stored journal only if it appends an
\* entry: the new entry comes first and what follows it is the journal as it
\* was, entry for entry, less some at its tail, also when the write falls
\* back; creating, completing or deleting a reminder, a switch, a due check
\* or a read of the journal leaves it as it is.
OnlyAppendEvicts ==
  [][plant_journal' # plant_journal =>
       /\ Len(appended') = Len(appended) + 1
       /\ StoredJournal' # <<>>
       /\ Head(StoredJournal').id = appended'[Len(appended')].id
       /\ Len(StoredJournal') <= Len(StoredJournal) + 1
       /\ Tail(StoredJournal') = Slice(StoredJournal, Len(StoredJournal') - 1)]_vars

\* the fallback write has put the new entry first and evicted the oldest,
\* while a reminder for the evicted plant is stored
FallbackEvictedOldest ==
  /\ persistFailed
  /\ Len(StoredJournal) = FallbackCap
  /\ Head(StoredJournal).id = FallbackCap + 1
  /\ StoredJournal[FallbackCap].id = 2
  /\ StoredReminders # <<>>
  /\ StoredReminders[1].plantId = 1

====
